---- MODULE Spec2Model ----
(***************************************************************************)
(* Model of src/engine/planning/query.rs: Query::normalize,                *)
(* Query::extract_aggregators, NormalFormQuery::result_column_names and    *)
(* NormalFormQuery::run.                                                   *)
(*                                                                         *)
(* An Expr is a tuple whose first element is the variant:                  *)
(*   <<"ColName", name>>, <<"Const", v>>, <<"Func1", op, e>>,              *)
(*   <<"Func2", op, e1, e2>>, <<"Aggregate", aggregator, e>>.              *)
(* An Option is a sequence of length 0 (None) or 1 (Some).                 *)
(***************************************************************************)
EXTENDS Integers, Sequences, FiniteSets, TLC

VARIABLES
    npc,            \* normalize: "start" | "normalized"
    query,          \* the Query handed to normalize
    stage1,         \* first NormalFormQuery returned by normalize
    stage2,         \* Option<NormalFormQuery> returned by normalize
    xpc,            \* extract_aggregators: "start" | "extracted"
    expr,           \* argument expr of extract_aggregators
    column_names,   \* argument column_names (a &mut Vec<String>)
    extracted,      \* Option of the call's result and the updated column_names
    rpc,            \* result_column_names: "start" | "named"
    nfq,            \* the NormalFormQuery result_column_names is called on
    names,          \* the Vec<String> it returns
    upc,            \* run: position in NormalFormQuery::run
    self,           \* the NormalFormQuery run is called on
    columns,        \* the column map: name -> [tag, data]
    partition_length,
    filter,         \* run's local `filter`
    sort_indices,   \* run's local `sort_indices` (an Option)
    plan,           \* the sort operators emitted to the planner, in order
    select,         \* run's local `select`: the projection output columns
    order_by,       \* run's local `order_by`: the order-by output columns
    result,         \* how the call ended and what it returned
    apc,            \* run_aggregate: position in NormalFormQuery::run_aggregate
    aself,          \* the NormalFormQuery run_aggregate is called on
    grouping,       \* what filter compilation and grouping (lines 145-178) yielded
    encoded_group_by_column,    \* run_aggregate's local of that name (an Option)
    aggregation_results,        \* run_aggregate's local of that name
    selector,       \* the Option `selector` of the aggregator loop
    selector_index, \* run_aggregate's local of that name (an Option)
    selector_buffer,    \* the buffer `selector` is rebound to at line 202 (an Option)
    aggregation_cols,   \* run_aggregate's local of that name
    aresult         \* how the call to run_aggregate ended and what it collected

normVars == <<npc, query, stage1, stage2>>
extractVars == <<xpc, expr, column_names, extracted>>
namesVars == <<rpc, nfq, names>>
runVars == <<upc, self, columns, partition_length, filter, sort_indices, plan,
             select, order_by, result>>
aggregateVars == <<apc, aself, grouping, encoded_group_by_column, aggregation_results,
                   selector, selector_index, selector_buffer, aggregation_cols, aresult>>
vars == <<normVars, extractVars, namesVars, runVars, aggregateVars>>

----------------------------------------------------------------------------
(* Bounds of the model *)
MaxSelect == 2      \* longest select list
MaxOrderBy == 1     \* longest order_by list of a Query
MaxLimit == 1       \* largest limit of a LimitClause in a Query
MaxNodes == 5       \* most nodes of an Expr handed to extract_aggregators
MaxNames == 2       \* longest starting column_names list
MaxProjection == 2  \* longest projection list handed to result_column_names
MaxAggregate == 2   \* longest aggregate list handed to result_column_names
MinRows == 3        \* fewest rows of a partition handed to run
MaxRows == 4        \* most rows of a partition handed to run
MaxRunLimit == 1    \* largest limit of a query handed to run

----------------------------------------------------------------------------
(* Expressions *)

ColName(n) == <<"ColName", n>>
Const(v) == <<"Const", v>>
Func1(t, e) == <<"Func1", t, e>>
Func2(t, e1, e2) == <<"Func2", t, e1, e2>>
Aggregate(a, e) == <<"Aggregate", a, e>>

Aggregators == {"Count", "Sum"}

IsColName(e) == e[1] = "ColName"

RECURSIVE ContainsAggregate(_)
ContainsAggregate(e) ==
    CASE e[1] = "Aggregate" -> TRUE
      [] e[1] = "Func1" -> ContainsAggregate(e[3])
      [] e[1] = "Func2" -> ContainsAggregate(e[3]) \/ ContainsAggregate(e[4])
      [] OTHER -> FALSE

RECURSIVE add_colnames(_)
add_colnames(e) ==
    CASE e[1] = "ColName" -> {e[2]}
      [] e[1] = "Func1" -> add_colnames(e[3])
      [] e[1] = "Func2" -> add_colnames(e[3]) \cup add_colnames(e[4])
      [] e[1] = "Aggregate" -> add_colnames(e[3])
      [] OTHER -> {}

Range(s) == {s[i] : i \in 1..Len(s)}

\* format!("{prefix}{}", n): the prefix followed by n in decimal
Format(prefix, n) == prefix \o ToString(n)

----------------------------------------------------------------------------
(* Query::extract_aggregators *)

ExtractResult(e, aggregates, names_out) ==
    [expr |-> e, aggregates |-> aggregates, column_names |-> names_out]

\* mutant of extract_aggregators: the right operand of a Func2 is numbered
\* from the caller's column_names instead of the left operand's result
RECURSIVE extract_aggregators_RightFromStart(_, _)
extract_aggregators_RightFromStart(e, cn) ==
    CASE e[1] = "Aggregate" ->
            LET column_name == Format("_ca", Len(cn))
            IN  ExtractResult(ColName(column_name), <<<<e[2], e[3]>>>>,
                              Append(cn, column_name))
      [] e[1] = "Func1" ->
            LET r == extract_aggregators_RightFromStart(e[3], cn)
            IN  ExtractResult(Func1(e[2], r.expr), r.aggregates, r.column_names)
      [] e[1] = "Func2" ->
            LET r1 == extract_aggregators_RightFromStart(e[3], cn)
                r2 == extract_aggregators_RightFromStart(e[4], cn)
            IN  ExtractResult(Func2(e[2], r1.expr, r2.expr),
                              r1.aggregates \o r2.aggregates,
                              r1.column_names \o SubSeq(r2.column_names, Len(cn) + 1,
                                                        Len(r2.column_names)))
      [] OTHER -> ExtractResult(e, <<>>, cn)

RECURSIVE extract_aggregators(_, _)
extract_aggregators(e, cn) ==
    CASE e[1] = "Aggregate" ->
            LET column_name == Format("_ca", Len(cn))
            IN  ExtractResult(ColName(column_name), <<<<e[2], e[3]>>>>,
                              Append(cn, column_name))
      [] e[1] = "Func1" ->
            LET r == extract_aggregators(e[3], cn)
            IN  ExtractResult(Func1(e[2], r.expr), r.aggregates, r.column_names)
      [] e[1] = "Func2" ->
            LET r1 == extract_aggregators(e[3], cn)
                r2 == extract_aggregators(e[4], r1.column_names)
            IN  ExtractResult(Func2(e[2], r1.expr, r2.expr),
                              r1.aggregates \o r2.aggregates, r2.column_names)
      [] OTHER -> ExtractResult(e, <<>>, cn)

----------------------------------------------------------------------------
(* Query::normalize *)

NormalFormQuery(projection, where, aggregate, ordering, limit) ==
    [projection |-> projection, filter |-> where, aggregate |-> aggregate,
     order_by |-> ordering, limit |-> limit]

NormalizeState0 ==
    [final_projection |-> <<>>, select |-> <<>>, aggregate |-> <<>>,
     aggregate_colnames |-> <<>>, select_colnames |-> <<>>, final_order_by |-> <<>>]

\* mutant of SelectStep: an aggregate-free select expression is kept as the
\* final projection instead of a reference to its `_cs{k}` column
SelectStep_KeepShell(st, e) ==
    LET r == extract_aggregators(e, st.aggregate_colnames)
    IN  IF r.aggregates = <<>>
        THEN LET column_name == Format("_cs", Len(st.select_colnames))
             IN  [st EXCEPT !.aggregate_colnames = r.column_names,
                            !.select_colnames = Append(@, column_name),
                            !.select = Append(@, r.expr),
                            !.final_projection = Append(@, r.expr)]
        ELSE [st EXCEPT !.aggregate_colnames = r.column_names,
                        !.aggregate = @ \o r.aggregates,
                        !.final_projection = Append(@, r.expr)]

\* one iteration of `for expr in &self.select`
SelectStep(st, e) ==
    LET r == extract_aggregators(e, st.aggregate_colnames)
    IN  IF r.aggregates = <<>>
        THEN LET column_name == Format("_cs", Len(st.select_colnames))
             IN  [st EXCEPT !.aggregate_colnames = r.column_names,
                            !.select_colnames = Append(@, column_name),
                            !.select = Append(@, r.expr),
                            !.final_projection = Append(@, ColName(column_name))]
        ELSE [st EXCEPT !.aggregate_colnames = r.column_names,
                        !.aggregate = @ \o r.aggregates,
                        !.final_projection = Append(@, r.expr)]

RECURSIVE SelectLoop(_, _, _)
SelectLoop(st, exprs, i) ==
    IF i > Len(exprs) THEN st
    ELSE SelectLoop(SelectStep(st, exprs[i]), exprs, i + 1)

\* one iteration of `for (expr, desc) in &self.order_by`
OrderByStep(st, ob) ==
    LET r == extract_aggregators(ob[1], st.aggregate_colnames)
    IN  IF r.aggregates = <<>>
        THEN LET column_name == Format("_cs", Len(st.select_colnames))
             IN  [st EXCEPT !.aggregate_colnames = r.column_names,
                            !.select_colnames = Append(@, column_name),
                            !.select = Append(@, r.expr),
                            !.final_order_by = Append(@, <<ColName(column_name), ob[2]>>)]
        ELSE [st EXCEPT !.aggregate_colnames = r.column_names,
                        !.aggregate = @ \o r.aggregates,
                        !.final_order_by = Append(@, <<r.expr, ob[2]>>)]

RECURSIVE OrderByLoop(_, _, _)
OrderByLoop(st, ordering, i) ==
    IF i > Len(ordering) THEN st
    ELSE OrderByLoop(OrderByStep(st, ordering[i]), ordering, i + 1)

\* mutant of require_final_pass: only the shape of the final projection decides
require_final_pass_ShapeOnly(st, q) ==
    \E i \in 1..Len(st.final_projection) : ~IsColName(st.final_projection[i])

require_final_pass(st, q) ==
    \/ (st.aggregate # <<>> /\ q.order_by # <<>>)
    \/ \E i \in 1..Len(st.final_projection) : ~IsColName(st.final_projection[i])

normalize(q) ==
    LET st == SelectLoop(NormalizeState0, q.select, 1)
    IN  IF require_final_pass(st, q)
        THEN LET fin == OrderByLoop(st, q.order_by, 1)
             IN  <<NormalFormQuery(fin.select, q.filter, fin.aggregate, <<>>, q.limit),
                   <<NormalFormQuery(fin.final_projection, Const(1), <<>>,
                                     fin.final_order_by, q.limit)>> >>
        ELSE <<NormalFormQuery(st.select, q.filter, st.aggregate, q.order_by, q.limit),
               <<>> >>

----------------------------------------------------------------------------
(* NormalFormQuery::result_column_names *)

\* select_cols: `anon_columns` counts the projection expressions before
\* position i that are not a bare ColName
RECURSIVE select_cols(_, _, _)
select_cols(projection, i, anon_columns) ==
    IF i > Len(projection) THEN <<>>
    ELSE IF IsColName(projection[i])
         THEN <<projection[i][2]>> \o select_cols(projection, i + 1, anon_columns)
         ELSE <<Format("col_", anon_columns + 1)>>
                  \o select_cols(projection, i + 1, anon_columns + 1)

RECURSIVE aggregate_cols(_, _, _)
aggregate_cols(aggregate, i, anon_aggregates) ==
    IF i > Len(aggregate) THEN <<>>
    ELSE <<IF aggregate[i][1] = "Count"
           THEN Format("count_", anon_aggregates + 1)
           ELSE Format("sum_", anon_aggregates + 1)>>
             \o aggregate_cols(aggregate, i + 1, anon_aggregates + 1)

result_column_names(s) ==
    select_cols(s.projection, 1, -1) \o aggregate_cols(s.aggregate, 1, -1)

----------------------------------------------------------------------------
(* Inputs of normalize *)

SeqsUpTo(S, n) == UNION {[1..k -> S] : k \in 0..n}

a == ColName("a")
b == ColName("b")
one == Const(1)
sum_a == Aggregate("Sum", a)
count_1 == Aggregate("Count", one)

\* select expressions: plain columns, constants, scalar functions, bare
\* aggregates, functions of aggregates, an aggregate combined with a column
SelectExprs ==
    {a, one, Func2("Add", a, one), sum_a, count_1, Func2("Add", sum_a, one),
     Func2("Add", sum_a, b), Func1("Negate", count_1),
     Func2("Add", sum_a, Aggregate("Count", b))}

OrderByExprs == {a, Func2("Add", a, one), sum_a, Func2("Add", count_1, b)}

FilterExprs == {one, Func2("Eq", a, one), sum_a}

LimitClause(limit, offset) == [limit |-> limit, offset |-> offset]

Queries ==
    [select : SeqsUpTo(SelectExprs, MaxSelect),
     filter : FilterExprs,
     order_by : SeqsUpTo(OrderByExprs \X BOOLEAN, MaxOrderBy),
     limit : {LimitClause(l, 0) : l \in 0..MaxLimit}]

NoQuery == [select |-> <<>>, filter |-> one, order_by |-> <<>>, limit |-> LimitClause(0, 0)]
NoStage == NormalFormQuery(<<>>, one, <<>>, <<>>, LimitClause(0, 0))

NormIdle == npc = "idle" /\ query = NoQuery /\ stage1 = NoStage /\ stage2 = <<>>
ExtractIdle == xpc = "idle" /\ expr = one /\ column_names = <<>> /\ extracted = <<>>
NamesIdle == rpc = "idle" /\ nfq = NoStage /\ names = <<>>

NoResult == [kind |-> "none", projection |-> <<>>, order_by |-> <<>>]
NoColumns == [n \in {} |-> 0]

RunIdle ==
    /\ upc = "idle" /\ self = NoStage /\ columns = NoColumns /\ partition_length = 0
    /\ filter = <<"None">> /\ sort_indices = <<>> /\ plan = <<>>
    /\ select = <<>> /\ order_by = <<>> /\ result = NoResult

NoGrouping ==
    [filter |-> "None", dense |-> TRUE, raw_order_preserving |-> TRUE,
     order_preserving |-> TRUE, decode_plans |-> 0]
NoAggregateResult == [kind |-> "none", aggregations |-> <<>>]

AggregateIdle ==
    /\ apc = "idle" /\ aself = NoStage /\ grouping = NoGrouping
    /\ encoded_group_by_column = <<>> /\ aggregation_results = <<>>
    /\ selector = <<>> /\ selector_index = <<>> /\ selector_buffer = <<>>
    /\ aggregation_cols = <<>> /\ aresult = NoAggregateResult

----------------------------------------------------------------------------
(* Specification of normalize *)

InitNormalize ==
    /\ npc = "start"
    /\ query \in Queries
    /\ stage1 = NoStage
    /\ stage2 = <<>>
    /\ ExtractIdle
    /\ NamesIdle
    /\ RunIdle
    /\ AggregateIdle

Normalize ==
    /\ npc = "start"
    /\ npc' = "normalized"
    /\ stage1' = normalize(query)[1]
    /\ stage2' = normalize(query)[2]
    /\ UNCHANGED <<query, extractVars, namesVars, runVars, aggregateVars>>

NextNormalize == Normalize

SpecNormalize == InitNormalize /\ [][NextNormalize]_vars

Stages == <<stage1>> \o stage2

StageExprs(s) ==
    {s.projection[i] : i \in 1..Len(s.projection)}
        \cup {s.filter}
        \cup {s.order_by[i][1] : i \in 1..Len(s.order_by)}

\* C1: after normalize, no expression in the projection, filter or order_by
\* of stage 1, or of stage 2 when present, contains an Aggregate node.
C1_NoAggregateInStages ==
    npc = "normalized" =>
        \A k \in 1..Len(Stages) : \A e \in StageExprs(Stages[k]) : ~ContainsAggregate(e)

\* C2: every stage returned by normalize has at most one of its aggregate
\* list and its order_by list non-empty.
C2_AggregateXorOrderBy ==
    npc = "normalized" =>
        \A k \in 1..Len(Stages) :
            Stages[k].aggregate = <<>> \/ Stages[k].order_by = <<>>

SelectAggregates(q) ==
    \E i \in 1..Len(q.select) : ContainsAggregate(q.select[i])

\* the case C2 is about: aggregates in the select list and a non-empty
\* order_by, normalized into two stages
C2_Witness ==
    /\ npc = "normalized"
    /\ SelectAggregates(query)
    /\ query.order_by # <<>>
    /\ Len(stage2) = 1
    /\ stage1.aggregate # <<>>
    /\ stage2[1].order_by # <<>>

Shell(e) == extract_aggregators(e, <<>>).expr

\* C3 as stated: a second stage is returned iff some top-level select
\* expression's shell is not a bare ColName, or the extracted aggregates and
\* order_by are both non-empty; otherwise a single stage keeps the query's
\* order_by and limit.
C3_Original ==
    npc = "normalized" =>
        LET need == \/ \E i \in 1..Len(query.select) : ~IsColName(Shell(query.select[i]))
                    \/ (SelectAggregates(query) /\ query.order_by # <<>>)
        IN  /\ (Len(stage2) = 1) <=> need
            /\ ~need => (stage1.order_by = query.order_by /\ stage1.limit = query.limit)

\* C3 amended: only the shells of select expressions that contain an
\* aggregate count; an aggregate-free select expression never forces a
\* second stage.
C3_FinalPassIff ==
    npc = "normalized" =>
        LET need == \/ \E i \in 1..Len(query.select) :
                          /\ ContainsAggregate(query.select[i])
                          /\ ~IsColName(Shell(query.select[i]))
                    \/ (SelectAggregates(query) /\ query.order_by # <<>>)
        IN  /\ (Len(stage2) = 1) <=> need
            /\ ~need => (stage1.order_by = query.order_by /\ stage1.limit = query.limit)

\* both sides of the equivalence happen: a single stage for a query whose
\* only select expression is an aggregate-free function
C3_Witness ==
    /\ npc = "normalized"
    /\ query.select = <<Func2("Add", a, one)>>
    /\ query.order_by # <<>>
    /\ query.limit.limit = MaxLimit
    /\ stage2 = <<>>
    /\ stage1.order_by = query.order_by

SyntheticNames(s) ==
    {Format("_cs", k) : k \in 0..(Len(s.projection) - 1)}
        \cup {Format("_ca", k) : k \in 0..(Len(s.aggregate) - 1)}

\* C5: when a second stage is returned, every ColName in its projection and
\* order_by is `_cs{k}` with k < len(stage1.projection) or `_ca{k}` with
\* k < len(stage1.aggregate); no column of the original table is referenced.
C5_Stage2RefsSynthetic ==
    (npc = "normalized" /\ Len(stage2) = 1) =>
        /\ \A i \in 1..Len(stage2[1].projection) :
              add_colnames(stage2[1].projection[i]) \subseteq SyntheticNames(stage1)
        /\ \A i \in 1..Len(stage2[1].order_by) :
              add_colnames(stage2[1].order_by[i][1]) \subseteq SyntheticNames(stage1)

----------------------------------------------------------------------------
(* Specification of extract_aggregators as a pure function *)

\* the expressions with exactly n nodes
RECURSIVE ExprsOfSize(_)
ExprsOfSize(n) ==
    IF n = 1 THEN {a, one}
    ELSE {Func1("Negate", e) : e \in ExprsOfSize(n - 1)}
            \cup {Aggregate(g, e) : g \in Aggregators, e \in ExprsOfSize(n - 1)}
            \cup UNION {{Func2("Add", e1, e2) :
                            e1 \in ExprsOfSize(k), e2 \in ExprsOfSize(n - 1 - k)} :
                        k \in 1..(n - 2)}

Exprs == UNION {ExprsOfSize(n) : n \in 1..MaxNodes}

ColumnNamePool == {"_ca1", "_ca2", "x"}

InitExtract ==
    /\ xpc = "start"
    /\ expr \in Exprs
    /\ column_names \in SeqsUpTo(ColumnNamePool, MaxNames)
    /\ extracted = <<>>
    /\ NormIdle
    /\ NamesIdle
    /\ RunIdle
    /\ AggregateIdle

ExtractAggregators ==
    /\ xpc = "start"
    /\ xpc' = "extracted"
    /\ extracted' = <<extract_aggregators(expr, column_names)>>
    /\ UNCHANGED <<expr, column_names, normVars, namesVars, runVars, aggregateVars>>

NextExtract == ExtractAggregators

SpecExtract == InitExtract /\ [][NextExtract]_vars

\* Positions of an expression are paths of child indices (3: the operand of
\* Func1/Aggregate or the left operand of Func2, 4: the right operand).
RECURSIVE Paths(_, _)
Paths(e, intoAggregates) ==
    CASE e[1] = "Func1" -> {<<>>} \cup {<<3>> \o p : p \in Paths(e[3], intoAggregates)}
      [] e[1] = "Func2" ->
            {<<>>} \cup {<<3>> \o p : p \in Paths(e[3], intoAggregates)}
                   \cup {<<4>> \o p : p \in Paths(e[4], intoAggregates)}
      [] e[1] = "Aggregate" /\ intoAggregates ->
            {<<>>} \cup {<<3>> \o p : p \in Paths(e[3], intoAggregates)}
      [] OTHER -> {<<>>}

RECURSIVE At(_, _)
At(e, p) == IF p = <<>> THEN e ELSE At(e[Head(p)], Tail(p))

\* p comes before q in pre-order
RECURSIVE PreOrderLess(_, _)
PreOrderLess(p, q) ==
    IF p = <<>> THEN q # <<>>
    ELSE IF q = <<>> THEN FALSE
    ELSE IF Head(p) # Head(q) THEN Head(p) < Head(q)
    ELSE PreOrderLess(Tail(p), Tail(q))

Rank(p, S) == Cardinality({q \in S : PreOrderLess(q, p)})

\* the shell r.expr has the shape of e over the positions P, with the
\* Aggregate nodes at positions A replaced by `_ca{k}`, k in extraction order
\* from Len(cn), and r.aggregates lists the (aggregator, inner) of A in pre-order
ExtractionOf(e, cn, r, P, A) ==
    /\ Paths(r.expr, FALSE) = P
    /\ Len(r.aggregates) = Cardinality(A)
    /\ \A p \in P :
          LET old == At(e, p)
              new == At(r.expr, p)
          IN  IF p \in A
              THEN /\ new = ColName(Format("_ca", Len(cn) + Rank(p, A)))
                   /\ r.aggregates[Rank(p, A) + 1] = <<old[2], old[3]>>
              ELSE /\ new[1] = old[1]
                   /\ new[1] \in {"Func1", "Func2"} => new[2] = old[2]
                   /\ new[1] \in {"ColName", "Const"} => new = old

NewNames(cn, r) == {r.column_names[i] : i \in (Len(cn) + 1)..Len(r.column_names)}

AggregatePaths(e, nested) ==
    {p \in Paths(e, nested) : At(e, p)[1] = "Aggregate"}

\* C4 as stated: for every Expr and every starting column_names, the shell
\* is e with each Aggregate node replaced by `_ca{k}`, the new names are
\* pairwise distinct and not already in column_names, and the extracted
\* list is the Aggregate subterms of e in pre-order.
C4_Original ==
    xpc = "extracted" =>
        LET r == extracted[1]
            A == AggregatePaths(expr, TRUE)
        IN  /\ ExtractionOf(expr, column_names, r, Paths(expr, FALSE), A)
            /\ Cardinality(NewNames(column_names, r)) = Cardinality(A)
            /\ NewNames(column_names, r) \cap Range(column_names) = {}

\* column_names holds no name `_ca{k}` with k at or past its length
NoStaleNames(cn) ==
    \A k \in Len(cn)..(Len(cn) + MaxNodes) : Format("_ca", k) \notin Range(cn)

\* C4 amended: the Aggregate nodes replaced and listed are the outermost
\* ones (an Aggregate inside another stays in the inner expression of its
\* pair), and the new names are absent from column_names only when
\* column_names holds no `_ca{k}` with k >= its length.
C4_ExtractHomomorphism ==
    xpc = "extracted" =>
        LET r == extracted[1]
            A == AggregatePaths(expr, FALSE)
        IN  /\ ExtractionOf(expr, column_names, r, Paths(expr, FALSE), A)
            /\ r.column_names =
                  column_names \o [i \in 1..Cardinality(A) |->
                                      Format("_ca", Len(column_names) + i - 1)]
            /\ Cardinality(NewNames(column_names, r)) = Cardinality(A)
            /\ NoStaleNames(column_names) =>
                  NewNames(column_names, r) \cap Range(column_names) = {}

\* two aggregates under a Func2, extracted after a non-empty column_names
C4_Witness ==
    /\ xpc = "extracted"
    /\ expr = Func2("Add", sum_a, count_1)
    /\ column_names = <<"x">>
    /\ extracted[1].expr = Func2("Add", ColName("_ca1"), ColName("_ca2"))
    /\ extracted[1].aggregates = <<<<"Sum", a>>, <<"Count", one>>>>

----------------------------------------------------------------------------
(* Specification of result_column_names as a pure function *)

ProjectionExprs == {a, ColName("col_0"), ColName("sum_0"), one, Func2("Add", a, one)}

AggregateItems == {<<"Count", one>>, <<"Sum", a>>}

InitNames ==
    /\ rpc = "start"
    /\ nfq \in {NormalFormQuery(p, one, g, <<>>, LimitClause(0, 0)) :
                    p \in SeqsUpTo(ProjectionExprs, MaxProjection),
                    g \in SeqsUpTo(AggregateItems, MaxAggregate)}
    /\ names = <<>>
    /\ NormIdle
    /\ ExtractIdle
    /\ RunIdle
    /\ AggregateIdle

ResultColumnNames ==
    /\ rpc = "start"
    /\ rpc' = "named"
    /\ names' = result_column_names(nfq)
    /\ UNCHANGED <<nfq, normVars, extractVars, runVars, aggregateVars>>

NextNames == ResultColumnNames

SpecNames == InitNames /\ [][NextNames]_vars

\* C6: result_column_names returns one name per projection expression
\* followed by one per aggregate, and no two positions of the returned list
\* carry the same string.
C6_NamesDistinct ==
    rpc = "named" =>
        /\ Len(names) = Len(nfq.projection) + Len(nfq.aggregate)
        /\ \A i, j \in 1..Len(names) : i # j => names[i] # names[j]

----------------------------------------------------------------------------
(* The planner operators, the Filter variants and compile_expr that run      *)
(* calls. Their code is outside query.rs; they are modelled by the values    *)
(* they produce. Buffers are sequences, row indices are 0-based.             *)

Null == -1      \* a null entry of a NullableU8 mask

FilterNone == <<"None">>
FilterU8(mask) == <<"U8", mask>>
FilterNullableU8(mask) == <<"NullableU8", mask>>
FilterIndices(list) == <<"Indices", list>>

\* planner.indices(buf): [0..len(buf))
indices(buf) == [i \in 1..Len(buf) |-> i - 1]

\* planner.null_vec(n, EncodingType::Null)
null_vec(n) == [i \in 1..n |-> Null]

\* planner.filter(values, mask): the entries whose mask byte is true
RECURSIVE filter_op(_, _)
filter_op(values, mask) ==
    IF values = <<>> THEN <<>>
    ELSE (IF Head(mask) = 1 THEN <<Head(values)>> ELSE <<>>)
             \o filter_op(Tail(values), Tail(mask))

\* planner.nullable_filter(values, mask): the entries whose mask byte is
\* present and true
RECURSIVE nullable_filter(_, _)
nullable_filter(values, mask) ==
    IF values = <<>> THEN <<>>
    ELSE (IF Head(mask) # Null /\ Head(mask) = 1 THEN <<Head(values)>> ELSE <<>>)
             \o nullable_filter(Tail(values), Tail(mask))

\* planner.select(values, idx): gather
select_op(values, idx) == [i \in 1..Len(idx) |-> values[idx[i] + 1]]

\* x sorts strictly before y
Before(x, y, desc) == IF desc THEN x > y ELSE x < y

IsSortedBy(ranking, t, desc) ==
    \A i \in 1..(Len(t) - 1) : ~Before(ranking[t[i + 1] + 1], ranking[t[i] + 1], desc)

\* the orderings of the index set S in which no index sorts strictly before
\* an earlier one
RECURSIVE Orderings(_, _, _)
Orderings(ranking, S, desc) ==
    IF S = {} THEN {<<>>}
    ELSE UNION {{<<x>> \o t : t \in Orderings(ranking, S \ {x}, desc)} :
                   x \in {y \in S : \A z \in S :
                                       ~Before(ranking[z + 1], ranking[y + 1], desc)}}

\* stable insertion of index x into the sorted list t
RECURSIVE StableInsert(_, _, _, _)
StableInsert(ranking, t, x, desc) ==
    IF t = <<>> THEN <<x>>
    ELSE IF Before(ranking[x + 1], ranking[Head(t) + 1], desc)
         THEN <<x>> \o t
         ELSE <<Head(t)>> \o StableInsert(ranking, Tail(t), x, desc)

RECURSIVE StableSort(_, _, _, _)
StableSort(ranking, s, k, desc) ==
    IF k = 0 THEN <<>>
    ELSE StableInsert(ranking, StableSort(ranking, s, k - 1, desc), s[k], desc)

\* planner.sort_by(ranking, idx, desc, stable): the index lists the sort may
\* produce; a stable sort has one outcome, an unstable sort may order equal
\* keys in any way
sort_by(ranking, idx, desc, stable) ==
    IF stable THEN {StableSort(ranking, idx, Len(idx), desc)}
    ELSE Orderings(ranking, Range(idx), desc)

Min(x, y) == IF x < y THEN x ELSE y

\* planner.top_n(ranking, n, desc): the n first-sorting indices (all of them
\* when there are fewer), in sort order; equal keys chosen in any way
top_n(ranking, n, desc) ==
    LET len == Min(n, Len(ranking))
        all == 0..(Len(ranking) - 1)
    IN  {t \in [1..len -> all] :
            /\ \A i, j \in 1..len : i # j => t[i] # t[j]
            /\ IsSortedBy(ranking, t, desc)
            /\ \A x \in all \ Range(t) : \A i \in 1..len :
                  ~Before(ranking[x + 1], ranking[t[i] + 1], desc)}

CompileOk(tag, data) == [ok |-> TRUE, tag |-> tag, data |-> data]
CompileErr(kind) == [ok |-> FALSE, tag |-> kind, data |-> <<>>]

\* the rows of a column that the ambient filter lets through
ApplyFilter(data, f) ==
    CASE f[1] = "None" -> data
      [] f[1] = "U8" -> filter_op(data, f[2])
      [] f[1] = "NullableU8" -> nullable_filter(data, f[2])
      [] f[1] = "Indices" -> select_op(data, f[2])

\* QueryPlan::compile_expr for the expressions run is given here: a column
\* reference (NoSuchColumn when absent) or a constant (a scalar, which the
\* filter does not touch); function kernels are not modelled
compile_expr(e, f, cols) ==
    CASE e[1] = "Const" -> CompileOk("Scalar", <<e[2]>>)
      [] e[1] = "ColName" ->
            IF e[2] \in DOMAIN cols
            THEN CompileOk(cols[e[2]].tag, ApplyFilter(cols[e[2]].data, f))
            ELSE CompileErr("NoSuchColumn")
      [] OTHER -> CompileErr("TypeError")

----------------------------------------------------------------------------
(* NormalFormQuery::run *)

\* mutant of Limit: the offset is left out
Limit_NoOffset(q) == q.limit.limit

\* let limit = (self.limit.limit + self.limit.offset) as usize
Limit(q) == q.limit.limit + q.limit.offset

\* mutant of KeyAt: the keys are taken first to last
KeyAt_Forward(ordering, done) == ordering[done + 1]

\* the key handled by the iteration of `self.order_by.iter().rev()` that
\* follows `done` finished iterations
KeyAt(ordering, done) == ordering[Len(ordering) - done]

\* the filter compiled from self.filter
CompiledFilter(q, cols) ==
    LET filter_plan == compile_expr(q.filter, FilterNone, cols)
    IN  CASE filter_plan.tag = "U8" -> FilterU8(filter_plan.data)
          [] filter_plan.tag = "NullableU8" -> FilterNullableU8(filter_plan.data)
          [] OTHER -> FilterNone

\* the operator one iteration of the sorting loop emits and the index lists
\* it may yield
SortOps(q, pl, ranking, prev, desc) ==
    IF Limit(q) < pl \div 2 /\ Len(q.order_by) = 1
    THEN {[op |-> "top_n", stable |-> FALSE, indices |-> t] :
              t \in top_n(ranking, Limit(q), desc)}
    ELSE IF prev = <<>>
         THEN {[op |-> "sort_by", stable |-> FALSE, indices |-> t] :
                   t \in sort_by(ranking, indices(ranking), desc, FALSE)}
         ELSE {[op |-> "sort_by", stable |-> TRUE, indices |-> t] :
                   t \in sort_by(ranking, prev[1], desc, TRUE)}

\* mutant of FuseFilter: the sort indices are taken as row indices whatever
\* the filter
FuseFilter_NoMask(f, si, pl) == FilterIndices(si)

\* filter fusion: `if let Some(sort_indices) = sort_indices { filter = match filter ... }`
FuseFilter(f, si, pl) ==
    CASE f[1] = "U8" ->
            FilterIndices(select_op(filter_op(indices(null_vec(pl)), f[2]), si))
      [] f[1] = "NullableU8" ->
            FilterIndices(select_op(nullable_filter(indices(null_vec(pl)), f[2]), si))
      [] f[1] = "None" -> FilterIndices(si)
      [] f[1] = "Indices" -> <<"unreachable">>

RunResult(kind, projection, ordering) ==
    [kind |-> kind, projection |-> projection, order_by |-> ordering]

\* the call returns (or aborts): its locals are gone
Return(r) ==
    /\ upc' = "done"
    /\ result' = r
    /\ filter' = FilterNone
    /\ sort_indices' = <<>>
    /\ plan' = <<>>
    /\ select' = <<>>
    /\ order_by' = <<>>

CompileFilter ==
    /\ upc = "start"
    /\ IF compile_expr(self.filter, FilterNone, columns).ok
       THEN /\ filter' = CompiledFilter(self, columns)
            /\ upc' = "sort"
            /\ UNCHANGED <<sort_indices, plan, select, order_by, result>>
       ELSE Return(RunResult("Err", <<>>, <<>>))
    /\ UNCHANGED <<self, columns, partition_length>>
    /\ UNCHANGED <<normVars, extractVars, namesVars, aggregateVars>>

\* one iteration of `for (plan, desc) in self.order_by.iter().rev()`
SortKey ==
    /\ upc = "sort"
    /\ Len(plan) < Len(self.order_by)
    /\ LET key == KeyAt(self.order_by, Len(plan))
           compiled == compile_expr(key[1], filter, columns)
       IN  IF compiled.ok
           THEN \E o \in SortOps(self, partition_length, compiled.data, sort_indices, key[2]) :
                    /\ sort_indices' = <<o.indices>>
                    /\ plan' = Append(plan, [op |-> o.op, stable |-> o.stable,
                                             key |-> key[1], desc |-> key[2]])
                    /\ UNCHANGED <<upc, filter, select, order_by, result>>
           ELSE Return(RunResult("Err", <<>>, <<>>))
    /\ UNCHANGED <<self, columns, partition_length>>
    /\ UNCHANGED <<normVars, extractVars, namesVars, aggregateVars>>

\* lines 74-108, once the sorting loop is over: filter fusion, then the
\* projection and order-by output columns compiled under the final filter
CompileOutputs ==
    /\ upc = "sort"
    /\ Len(plan) = Len(self.order_by)
    /\ LET fused == IF sort_indices = <<>> THEN filter
                    ELSE FuseFilter(filter, sort_indices[1], partition_length)
           projected == [i \in 1..Len(self.projection) |->
                            compile_expr(self.projection[i], fused, columns)]
           ordered == [i \in 1..Len(self.order_by) |->
                          compile_expr(self.order_by[i][1], fused, columns)]
       IN  IF fused[1] = "unreachable"
           THEN Return(RunResult("unreachable", <<>>, <<>>))
           ELSE IF /\ \A i \in 1..Len(projected) : projected[i].ok
                   /\ \A i \in 1..Len(ordered) : ordered[i].ok
                THEN /\ filter' = fused
                     /\ select' = [i \in 1..Len(projected) |-> projected[i].data]
                     /\ order_by' = [i \in 1..Len(ordered) |->
                                        <<ordered[i].data, self.order_by[i][2]>>]
                     /\ upc' = "execute"
                     /\ UNCHANGED <<sort_indices, plan, result>>
                ELSE Return(RunResult("Err", <<>>, <<>>))
    /\ UNCHANGED <<self, columns, partition_length>>
    /\ UNCHANGED <<normVars, extractVars, namesVars, aggregateVars>>

\* `planner.prepare(vec![])?` returns its error to the caller
PrepareFails ==
    /\ upc = "execute"
    /\ Return(RunResult("Err", <<>>, <<>>))
    /\ UNCHANGED <<self, columns, partition_length>>
    /\ UNCHANGED <<normVars, extractVars, namesVars, aggregateVars>>

\* lines 113-131: `columns.iter().next().unwrap()` aborts on an empty map
Execute ==
    /\ upc = "execute"
    /\ IF DOMAIN columns = {}
       THEN Return(RunResult("panic", <<>>, <<>>))
       ELSE Return(RunResult("Ok", select, order_by))
    /\ UNCHANGED <<self, columns, partition_length>>
    /\ UNCHANGED <<normVars, extractVars, namesVars, aggregateVars>>

----------------------------------------------------------------------------
(* Inputs of run *)

k1 == ColName("k1")
k2 == ColName("k2")
m == ColName("m")

KeyValues == {0, 1}
Offsets == {0, 1}

\* the order_by lists: none, k1, or k1 then k2, each key ascending or descending
OrderBys ==
    {SubSeq(<<<<k1, d1>>, <<k2, d2>>>>, 1, n) : n \in 0..2, d1 \in BOOLEAN, d2 \in BOOLEAN}

\* scans of column k1, and the scan that references no column
RunQueries ==
    {NormalFormQuery(<<k1>>, f, <<>>, ob, LimitClause(l, o)) :
        f \in {one, m}, ob \in OrderBys, l \in 0..MaxRunLimit, o \in Offsets}
    \cup {NormalFormQuery(<<one>>, one, <<>>, <<>>, LimitClause(l, o)) :
            l \in 0..MaxRunLimit, o \in Offsets}

\* the second key column alternates, so that rows tie on k1 alone, on k2
\* alone and on both
K2Columns(pl) == {[i \in 1..pl |-> (i - 1) % 2]}

\* a mask as U8 bytes, and as NullableU8 with its false entries null or 0
MaskColumns(pl) ==
    {[tag |-> "U8", data |-> mask] : mask \in [1..pl -> {0, 1}]}
    \cup {[tag |-> "NullableU8",
           data |-> [i \in 1..pl |->
                        IF mask[i] = 1 THEN 1 ELSE IF i % 2 = 1 THEN Null ELSE 0]] :
            mask \in [1..pl -> {0, 1}]}

Referenced(q) ==
    UNION {add_colnames(e) : e \in StageExprs(q)}

\* the column maps handed to run: the columns the query references, each
\* of partition_length rows, or no column at all
ColumnMaps(q, pl) ==
    {NoColumns} \cup
    {[n \in Referenced(q) |->
        CASE n = "k1" -> [tag |-> "I64", data |-> c1]
          [] n = "k2" -> [tag |-> "I64", data |-> c2]
          [] n = "m" -> cm] :
        c1 \in [1..pl -> KeyValues], c2 \in K2Columns(pl), cm \in MaskColumns(pl)}

InitRun ==
    /\ upc = "start"
    /\ self \in RunQueries
    /\ partition_length \in MinRows..MaxRows
    /\ columns \in ColumnMaps(self, partition_length)
    /\ filter = FilterNone
    /\ sort_indices = <<>>
    /\ plan = <<>>
    /\ select = <<>>
    /\ order_by = <<>>
    /\ result = NoResult
    /\ NormIdle
    /\ ExtractIdle
    /\ NamesIdle
    /\ AggregateIdle

NextRun ==
    \/ CompileFilter
    \/ SortKey
    \/ CompileOutputs
    \/ PrepareFails
    \/ Execute

SpecRun == InitRun /\ [][NextRun]_vars

\* C7: a call to run ends by returning Ok or Err to its caller, never by
\* aborting, whatever the query and the column map (an empty one included).
C7_RunReturns ==
    upc = "done" => result.kind \in {"Ok", "Err"}

\* the sorting loop ran to its end without an error
Sorted ==
    /\ Len(plan) = Len(self.order_by)
    /\ upc \in {"sort", "execute"}

\* the output columns were compiled
OutputsCompiled == upc = "execute"

\* the order-by key columns as the sorting loop sees them (under the filter
\* compiled from self.filter), indexed by position within the filtered rows
RankingOf(j) ==
    compile_expr(self.order_by[j][1], CompiledFilter(self, columns), columns).data

\* position x sorts strictly before position y under (key_1, ..., key_n),
\* each key under its own desc flag
LexBefore(x, y) ==
    \E k \in 1..Len(self.order_by) :
        /\ \A j \in 1..(k - 1) : RankingOf(j)[x + 1] = RankingOf(j)[y + 1]
        /\ Before(RankingOf(k)[x + 1], RankingOf(k)[y + 1], self.order_by[k][2])

\* C8: with two or more order_by keys the keys are processed last to first,
\* the last key by an unstable sort_by over a fresh identity list and each
\* earlier key by a stable sort_by over the previous list, and the final
\* index list orders the rows lexicographically by (key_1, ..., key_n).
C8_LexOrder ==
    Len(self.order_by) >= 2 =>
        /\ \A j \in 1..Len(plan) :
              /\ plan[j].op = "sort_by"
              /\ plan[j].stable = (j > 1)
              /\ plan[j].key = self.order_by[Len(self.order_by) - j + 1][1]
              /\ plan[j].desc = self.order_by[Len(self.order_by) - j + 1][2]
        /\ Sorted =>
              LET t == sort_indices[1]
              IN  /\ Range(t) = 0..(Len(RankingOf(1)) - 1)
                  /\ Len(t) = Len(RankingOf(1))
                  /\ \A i, j \in 1..Len(t) : i < j => ~LexBefore(t[j], t[i])

\* two keys sorted over rows that tie on the first key and differ on the
\* second, in an order that is not the table's
C8_Witness ==
    /\ upc = "execute"
    /\ Len(self.order_by) = 2
    /\ self.order_by[1][2] /\ ~self.order_by[2][2]
    /\ \E x, y \in Range(sort_indices[1]) :
          /\ x < y
          /\ RankingOf(1)[x + 1] = RankingOf(1)[y + 1]
          /\ RankingOf(2)[x + 1] > RankingOf(2)[y + 1]
    /\ sort_indices[1] # indices(RankingOf(1))

KeysAt(ranking, t) == [i \in 1..Len(t) |-> ranking[t[i] + 1]]

HasTopN == \E j \in 1..Len(plan) : plan[j].op = "top_n"

\* C9: top_n is emitted exactly when order_by has one key and limit + offset
\* < floor(partition_length / 2); the rows it selects are then the first
\* limit + offset rows of a full sort of the same filtered rows, up to the
\* choice and order of rows with equal keys.
C9_TopN ==
    Sorted =>
        LET total == self.limit.limit + self.limit.offset
        IN  /\ HasTopN <=> (Len(self.order_by) = 1 /\ total < partition_length \div 2)
            /\ HasTopN =>
                  LET ranking == RankingOf(1)
                      t == sort_indices[1]
                      desc == self.order_by[1][2]
                      len == Min(total, Len(ranking))
                  IN  /\ Len(t) = len
                      /\ \A i, j \in 1..len : i # j => t[i] # t[j]
                      /\ \A full \in sort_by(ranking, indices(ranking), desc, FALSE) :
                            KeysAt(ranking, t) = KeysAt(ranking, SubSeq(full, 1, len))

\* top_n over a masked column with an offset, keeping fewer rows than pass
\* the mask, and not the first of them
C9_Witness ==
    /\ upc = "execute"
    /\ HasTopN
    /\ self.limit.offset = 1
    /\ self.order_by[1][2]
    /\ CompiledFilter(self, columns)[1] = "U8"
    /\ Len(sort_indices[1]) = 1
    /\ Len(RankingOf(1)) >= 2
    /\ sort_indices[1][1] # 0

\* the rows (0-based) whose mask entry is present and true, in ascending order
RECURSIVE Ascending(_)
Ascending(S) ==
    IF S = {} THEN <<>>
    ELSE LET x == CHOOSE y \in S : \A z \in S : y <= z
         IN  <<x>> \o Ascending(S \ {x})

PassingRows(mask) == Ascending({i \in 0..(Len(mask) - 1) : mask[i + 1] = 1})

\* row x sorts strictly before row y of the table under the order_by keys
RowLexBefore(x, y) ==
    \E k \in 1..Len(self.order_by) :
        LET col(j) == columns[self.order_by[j][1][2]].data
        IN  /\ \A j \in 1..(k - 1) : col(j)[x + 1] = col(j)[y + 1]
            /\ Before(col(k)[x + 1], col(k)[y + 1], self.order_by[k][2])

\* C10: filter fusion is entered with a None, U8 or NullableU8 filter only;
\* with a non-empty order_by the output columns are compiled under
\* Filter::Indices, which for a mask filter lists original row indices: the
\* rows passing the mask gathered by the sort indices, each passing the mask,
\* none twice, in sort order; with an empty order_by the filter keeps its
\* compiled variant.
C10_FilterFusion ==
    /\ upc = "sort" => filter[1] \in {"None", "U8", "NullableU8"}
    /\ result.kind # "unreachable"
    /\ (OutputsCompiled /\ self.order_by = <<>>) => filter = CompiledFilter(self, columns)
    /\ (OutputsCompiled /\ self.order_by # <<>>) =>
          /\ filter[1] = "Indices"
          /\ LET cf == CompiledFilter(self, columns)
                 list == filter[2]
             IN  cf[1] \in {"U8", "NullableU8"} =>
                    /\ Len(cf[2]) = partition_length
                    /\ list = [j \in 1..Len(sort_indices[1]) |->
                                  PassingRows(cf[2])[sort_indices[1][j] + 1]]
                    /\ \A j \in 1..Len(list) : cf[2][list[j] + 1] = 1
                    /\ \A i, j \in 1..Len(list) : i # j => list[i] # list[j]
                    /\ \A i, j \in 1..Len(list) : i < j => ~RowLexBefore(list[j], list[i])

\* a sort fused with a NullableU8 mask whose first row does not pass, so
\* that positions within the filtered rows differ from row indices
C10_Witness ==
    /\ upc = "execute"
    /\ self.order_by # <<>>
    /\ CompiledFilter(self, columns)[1] = "NullableU8"
    /\ CompiledFilter(self, columns)[2][1] = Null
    /\ filter[1] = "Indices"
    /\ Len(filter[2]) >= 2
    /\ filter[2] # sort_indices[1]
    /\ filter[2][1] > filter[2][2]

----------------------------------------------------------------------------
(* NormalFormQuery::run_aggregate *)

(* The planner's buffers are kept as the terms that produce them: a call    *)
(* to the planner yields the term of its name and arguments.                *)

MaxAggregates == 3      \* longest aggregate list handed to run_aggregate
MaxDecodePlans == 2     \* most decode plans compile_grouping_key yields

\* the encodings lines 147-151 tell apart
FilterEncodings == {"U8", "NullableU8", "None"}

grouping_key == <<"grouping_key">>
aggregation_cardinality == <<"aggregation_cardinality">>

\* the buffer of the i-th call (0-based) of query_plan::prepare_aggregation,
\* on the plan compile_expr made of e under the filter f
prepare_aggregation(i, e, f, aggregator) ==
    <<"prepare_aggregation", i, <<"compile_expr", e, f>>, grouping_key,
      aggregation_cardinality, aggregator>>

exists(gk, cardinality) == <<"exists", gk, cardinality>>
nonzero_indices(sel) == <<"nonzero_indices", sel>>
compact(aggregate, sel) == <<"compact", aggregate, sel>>
nonzero_compact(aggregate) == <<"nonzero_compact", aggregate>>
decode(compacted) == <<"decode", compacted>>
hashmap_grouping == <<"prepare_hashmap_grouping">>
decode_plan(k) == <<"decode_plan", k>>
sort_unstable(key) == <<"sort_by", key, <<"indices", key>>, FALSE, FALSE>>
select_buffer(buffer, si) == <<"select", buffer, si>>

\* the closure decode_compact
decode_compact(aggregator, aggregate, t, sel) ==
    LET compacted == CASE aggregator = "Sum" -> compact(aggregate, sel)
                       [] aggregator = "Count" -> nonzero_compact(aggregate)
    IN  IF t.is_encoded THEN decode(compacted) ELSE compacted

\* Vec::insert(index, element), for index <= len
Insert(v, index, element) ==
    SubSeq(v, 1, index) \o <<element>> \o SubSeq(v, index + 1, Len(v))

\* `for (i, ...) in aggregation_results.iter().enumerate()` of lines 232-237,
\* from iteration i (0-based) on
RECURSIVE CompactLoop(_, _, _, _, _)
CompactLoop(cols, results, si, sel, i) ==
    IF i >= Len(results) THEN cols
    ELSE LET r == results[i + 1]
         IN  IF si # <<i>>
             THEN CompactLoop(Append(cols, <<decode_compact(r[1], r[2], r[3], sel), r[1]>>),
                              results, si, sel, i + 1)
             ELSE CompactLoop(cols, results, si, sel, i + 1)

\* mutant of InsertSelector: the selector's column is pushed at the end
InsertSelector_Push(cols, results, si, sel) ==
    IF si = <<>> THEN cols
    ELSE LET r == results[si[1] + 1]
         IN  Append(cols, <<decode_compact(r[1], r[2], r[3], sel), r[1]>>)

\* `if let Some(i) = selector_index { ... aggregation_cols.insert(i, ...) }`
InsertSelector(cols, results, si, sel) ==
    IF si = <<>> THEN cols
    ELSE LET r == results[si[1] + 1]
         IN  Insert(cols, si[1], <<decode_compact(r[1], r[2], r[3], sel), r[1]>>)

AggregateResult(kind, aggregations) == [kind |-> kind, aggregations |-> aggregations]

\* the call returns (or aborts): its locals are gone
AggregateReturn(r) ==
    /\ apc' = "done"
    /\ aresult' = r
    /\ encoded_group_by_column' = <<>>
    /\ aggregation_results' = <<>>
    /\ selector' = <<>>
    /\ selector_index' = <<>>
    /\ selector_buffer' = <<>>
    /\ aggregation_cols' = <<>>

\* lines 145-178: the filter is compiled and the grouping key built; what
\* the callees yield is theirs to choose
CompileGroupingKey ==
    /\ apc = "start"
    /\ \E f \in FilterEncodings, dense \in BOOLEAN, raw \in BOOLEAN, hashed \in BOOLEAN,
          n \in 0..MaxDecodePlans :
          /\ grouping' = [filter |-> f, dense |-> dense,
                          raw_order_preserving |-> raw,
                          order_preserving |-> IF dense THEN raw ELSE hashed,
                          decode_plans |-> n]
          /\ encoded_group_by_column' = IF dense THEN <<>> ELSE <<hashmap_grouping>>
    /\ apc' = "aggregators"
    /\ UNCHANGED <<aself, aggregation_results, selector, selector_index,
                   selector_buffer, aggregation_cols, aresult>>
    /\ UNCHANGED <<normVars, extractVars, namesVars, runVars>>

\* one iteration of `for (i, &(aggregator, ref expr)) in self.aggregate.iter().enumerate()`
PrepareAggregation ==
    /\ apc = "aggregators"
    /\ Len(aggregation_results) < Len(aself.aggregate)
    /\ \E is_encoded \in BOOLEAN :
          LET i == Len(aggregation_results)
              aggregator == aself.aggregate[i + 1][1]
              aggregate == prepare_aggregation(i, aself.aggregate[i + 1][2],
                                               grouping.filter, aggregator)
              t == [is_encoded |-> is_encoded]
          IN  /\ IF aggregator = "Count"
                 THEN /\ selector' = <<<<aggregate, t>>>>
                      /\ selector_index' = <<i>>
                 ELSE UNCHANGED <<selector, selector_index>>
              /\ aggregation_results' = Append(aggregation_results, <<aggregator, aggregate, t>>)
    /\ UNCHANGED <<apc, aself, grouping, encoded_group_by_column, selector_buffer,
                   aggregation_cols, aresult>>
    /\ UNCHANGED <<normVars, extractVars, namesVars, runVars>>

\* lines 201-212, once the aggregator loop is over
DetermineSelector ==
    /\ apc = "aggregators"
    /\ Len(aggregation_results) = Len(aself.aggregate)
    /\ LET sel == IF selector = <<>>
                  THEN exists(grouping_key, aggregation_cardinality)
                  ELSE selector[1][1]
       IN  /\ selector_buffer' = <<sel>>
           /\ encoded_group_by_column' =
                 IF encoded_group_by_column = <<>> THEN <<nonzero_indices(sel)>>
                 ELSE encoded_group_by_column
    /\ apc' = "compact"
    /\ UNCHANGED <<aself, grouping, aggregation_results, selector, selector_index,
                   aggregation_cols, aresult>>
    /\ UNCHANGED <<normVars, extractVars, namesVars, runVars>>

\* lines 214-245: Vec::insert aborts on an index past the end
CompactAndDecode ==
    /\ apc = "compact"
    /\ LET cols == CompactLoop(<<>>, aggregation_results, selector_index,
                               selector_buffer[1], 0)
       IN  IF selector_index # <<>> /\ selector_index[1] > Len(cols)
           THEN /\ AggregateReturn(AggregateResult("panic", <<>>))
                /\ UNCHANGED <<aself, grouping>>
           ELSE /\ aggregation_cols' = InsertSelector(cols, aggregation_results,
                                                      selector_index, selector_buffer[1])
                /\ apc' = "fixup"
                /\ UNCHANGED <<aself, grouping, encoded_group_by_column,
                               aggregation_results, selector, selector_index,
                               selector_buffer, aresult>>
    /\ UNCHANGED <<normVars, extractVars, namesVars, runVars>>

\* the sort indices of lines 257-275
FixupIndices(g, egbc) ==
    IF g.raw_order_preserving THEN sort_unstable(egbc) ELSE sort_unstable(decode_plan(0))

\* lines 247-290: the order-preservation fixup
SortFixup ==
    /\ apc = "fixup"
    /\ IF grouping.order_preserving
       THEN /\ apc' = "execute"
            /\ UNCHANGED <<encoded_group_by_column, aggregation_results, selector,
                           selector_index, selector_buffer, aggregation_cols, aresult>>
       ELSE IF ~grouping.raw_order_preserving /\ grouping.decode_plans # 1
            THEN AggregateReturn(AggregateResult("Err", <<>>))
            ELSE /\ aggregation_cols' =
                       [j \in 1..Len(aggregation_cols) |->
                           <<select_buffer(aggregation_cols[j][1],
                                           FixupIndices(grouping, encoded_group_by_column[1])),
                             aggregation_cols[j][2]>>]
                 /\ apc' = "execute"
                 /\ UNCHANGED <<encoded_group_by_column, aggregation_results, selector,
                                selector_index, selector_buffer, aresult>>
    /\ UNCHANGED <<aself, grouping>>
    /\ UNCHANGED <<normVars, extractVars, namesVars, runVars>>

\* a `?` of lines 146-192 or 295, or batch.validate() at line 314, returns
\* an error to the caller
AggregateFails ==
    /\ apc \in {"start", "aggregators", "execute"}
    /\ AggregateReturn(AggregateResult("Err", <<>>))
    /\ UNCHANGED <<aself, grouping>>
    /\ UNCHANGED <<normVars, extractVars, namesVars, runVars>>

\* lines 292-323: aggregation_cols goes to results.collect_aliased as it is
ExecuteAggregate ==
    /\ apc = "execute"
    /\ AggregateReturn(AggregateResult("Ok", aggregation_cols))
    /\ UNCHANGED <<aself, grouping>>
    /\ UNCHANGED <<normVars, extractVars, namesVars, runVars>>

----------------------------------------------------------------------------
(* Inputs of run_aggregate *)

\* a Count, and Sums of two columns
AggregateEntries == {<<"Count", one>>, <<"Sum", a>>, <<"Sum", b>>}

\* aggregate stages: no Count, one Count at any position, several Counts
AggregateQueries ==
    {NormalFormQuery(<<a>>, one, aggregate, <<>>, LimitClause(0, 0)) :
        aggregate \in SeqsUpTo(AggregateEntries, MaxAggregates)}

InitAggregate ==
    /\ apc = "start"
    /\ aself \in AggregateQueries
    /\ grouping = NoGrouping
    /\ encoded_group_by_column = <<>>
    /\ aggregation_results = <<>>
    /\ selector = <<>>
    /\ selector_index = <<>>
    /\ selector_buffer = <<>>
    /\ aggregation_cols = <<>>
    /\ aresult = NoAggregateResult
    /\ NormIdle
    /\ ExtractIdle
    /\ NamesIdle
    /\ RunIdle

NextAggregate ==
    \/ CompileGroupingKey
    \/ PrepareAggregation
    \/ DetermineSelector
    \/ CompactAndDecode
    \/ SortFixup
    \/ AggregateFails
    \/ ExecuteAggregate

SpecAggregate == InitAggregate /\ [][NextAggregate]_vars

\* the buffer prepare_aggregation yields for self.aggregate[j]
AggregateBuffer(j) ==
    prepare_aggregation(j - 1, aself.aggregate[j][2], grouping.filter, aself.aggregate[j][1])

CountPositions == {j \in 1..Len(aself.aggregate) : aself.aggregate[j][1] = "Count"}

\* the selector the claim names: the last Count's buffer, or exists(...)
ExpectedSelector ==
    IF CountPositions = {} THEN exists(grouping_key, aggregation_cardinality)
    ELSE AggregateBuffer(CHOOSE j \in CountPositions : \A k \in CountPositions : k <= j)

\* the compacted result of self.aggregate[j]
ExpectedCompacted(j) ==
    IF aself.aggregate[j][1] = "Sum"
    THEN compact(AggregateBuffer(j), ExpectedSelector)
    ELSE nonzero_compact(AggregateBuffer(j))

\* a column without the permutation of the order-preservation fixup, which
\* is applied exactly when the grouping key type is not order preserving
Unsorted(column) ==
    IF grouping.order_preserving THEN column
    ELSE IF column[1] = "select" /\ column[3] \in {sort_unstable(<<"nonzero_indices", ExpectedSelector>>),
                                                  sort_unstable(hashmap_grouping),
                                                  sort_unstable(decode_plan(0))}
         THEN column[2]
         ELSE <<"not selected">>

Undecoded(column) == IF column[1] = "decode" THEN column[2] ELSE column

\* cols lists, position by position, the compacted results of self.aggregate
MatchesAggregate(cols) ==
    /\ Len(cols) = Len(aself.aggregate)
    /\ \A j \in 1..Len(cols) :
          /\ cols[j][2] = aself.aggregate[j][1]
          /\ Undecoded(Unsorted(cols[j][1])) = ExpectedCompacted(j)

\* C11: for every aggregate list (no Count, one Count at any position,
\* several Counts) the aggregation columns handed to result collection are
\* as many as self.aggregate, and the j-th is the compacted result of
\* self.aggregate[j] with its aggregator (decoded when its type is encoded,
\* and permuted by the order-preservation fixup when that applies): the
\* selector is the last Count's buffer, put back at its own index, or
\* exists(grouping_key, cardinality) when there is no Count; a Sum is
\* compacted against the selector and a Count by nonzero_compact.
C11_SelectorPosition ==
    /\ aresult.kind # "panic"
    /\ selector_buffer # <<>> => selector_buffer = <<ExpectedSelector>>
    /\ apc = "execute" =>
          /\ MatchesAggregate(aggregation_cols)
          /\ \A j \in 1..Len(aggregation_cols) :
                (Unsorted(aggregation_cols[j][1])[1] = "decode")
                    <=> aggregation_results[j][3].is_encoded
    /\ aresult.kind = "Ok" => MatchesAggregate(aresult.aggregations)

\* two Counts followed by a Sum were collected: the second Count is the
\* selector, it sits between the first Count and the Sum, and its column
\* was decoded and permuted by the fixup
C11_Witness ==
    /\ aresult.kind = "Ok"
    /\ Len(aself.aggregate) = 3
    /\ CountPositions = {1, 2}
    /\ ~grouping.order_preserving
    /\ aresult.aggregations[2][1][1] = "select"
    /\ aresult.aggregations[2][1][2] = decode(nonzero_compact(AggregateBuffer(2)))
    /\ aresult.aggregations[3][1][2] = compact(AggregateBuffer(3), AggregateBuffer(2))

====
